---- MODULE Spec2Model ----
(***************************************************************************)
(* A model of duck-takes-flight: a DuckDB store served over Arrow Flight.  *)
(*                                                                         *)
(*   - the client's connect_with_retry loop (SpecConnect),                 *)
(*   - the server's do_get / do_put / do_action handlers against one       *)
(*     shared DuckDB connection, called through the client facade          *)
(*     execute_query / upload_data / execute_action (Spec),                *)
(*   - do_put's statements interleaved by concurrent handler threads       *)
(*     (SpecConc).                                                         *)
(***************************************************************************)
EXTENDS Integers, Sequences, FiniteSets, TLC

VARIABLES
    \* ---- DuckDBFlightClient construction (client.py:21-69)
    location,       \* self.location
    max_attempts,   \* the max_attempts argument
    attempt,        \* the loop variable of connect_with_retry
    cpc,            \* where connect_with_retry is
    connects,       \* number of flight.connect calls made
    sleeps,         \* number of time.sleep calls made
    slept,          \* total seconds slept
    trace,          \* the connect / sleep events, in order
    client,         \* self.client
    raised,         \* the exception that left the constructor
    \* ---- the server's DuckDB connection (server.py:36)
    tables,         \* persistent tables of self.conn
    temp_table,     \* what self.conn has registered as "temp_table"
    \* ---- one facade call against the server (Spec)
    ncalls,         \* facade calls made so far
    call,           \* the last facade call and the error injected into it
    srv,            \* what the server handler of the last call did
    ret,            \* what the facade returned to its caller
    caught,         \* the exception the facade caught and the call that raised it
    writer,         \* the put writer of the last upload_data: none, open or closed
    \* ---- concurrent do_put handlers (SpecConc)
    wpc,            \* per handler thread: its position in do_put
    wreq,           \* per handler thread: its request
    wlocal,         \* per handler thread: its local variables
    \* ---- wait_for_table (SpecWait)
    poll            \* the arguments, loop variable and position of wait_for_table

connVars == <<location, max_attempts, attempt, cpc, connects, sleeps, slept,
              trace, client, raised>>
storeVars == <<tables, temp_table>>
callVars == <<ncalls, call, srv, ret, caught, writer>>
workerVars == <<wpc, wreq, wlocal>>
pollVars == <<poll>>
vars == <<connVars, storeVars, callVars, workerVars, pollVars>>

(***************************************************************************)
(* Bounds of the model.                                                    *)
(***************************************************************************)
MaxAttemptsBound == 5   \* max_attempts ranges over -1 .. MaxAttemptsBound
MaxCalls == 3           \* facade calls per behaviour of Spec
MaxServerCalls == 2     \* handler calls per behaviour of SpecServer
MaxPollBound == 3       \* largest max_attempts of wait_for_table in SpecWait

(***************************************************************************)
(* Retry-Connector: DuckDBFlightClient.__init__ and connect_with_retry.    *)
(***************************************************************************)
Hosts == {"localhost", "testhost"}
Ports == {8815, 9000}

\* What one flight.connect call can do: return a client, raise the
\* transient FlightUnavailableError, or raise anything else.
ConnectOutcomes == {"ok", "FlightUnavailableError", "ArrowInvalid"}

NoClient == [kind |-> "unset"]
NoneClient == [kind |-> "None"]
NoError == [kind |-> "none"]

\* The client object flight.connect returned on its n-th call.
FlightClient(loc, n) == [kind |-> "FlightClient", location |-> loc, conn |-> n]
\* The exception flight.connect raised on its n-th call.
ConnectError(type, n) == [kind |-> "error", type |-> type, conn |-> n]

\* client.py:60: the retry test of the except branch.
MutRetryOffByOne(a, n) == a < n
MutRetryOneFewer(a, n) == a < n - 2
ShouldRetry(a, n) == a < n - 1

\* client.py:59: the except clause catches FlightUnavailableError only.
MutCatchesAll(type) == type # "ok"
IsCaught(type) == type = "FlightUnavailableError"

\* client.py:64: time.sleep(1).
RetrySleepSeconds == 1

InitConnVars ==
    /\ attempt = 0
    /\ cpc = "connect"
    /\ connects = 0
    /\ sleeps = 0
    /\ slept = 0
    /\ trace = <<>>
    /\ client = NoClient
    /\ raised = NoError

\* client.py:54-69: where one iteration of the loop leaves the function.
MutConnectKeepsLooping(outcome, a, n) ==
    IF outcome = "ok" /\ ShouldRetry(a, n) THEN "sleep"
    ELSE IF outcome = "ok" THEN "returned"
    ELSE IF IsCaught(outcome) /\ ShouldRetry(a, n) THEN "sleep"
    ELSE "raised"
AfterConnect(outcome, a, n) ==
    IF outcome = "ok" THEN "returned"
    ELSE IF IsCaught(outcome) /\ ShouldRetry(a, n) THEN "sleep"
    ELSE "raised"

\* One iteration of the for loop up to its sleep: flight.connect and, when
\* it raises, the except branch.
ConnectAttempt(outcome) ==
    /\ cpc = "connect"
    /\ attempt < max_attempts
    /\ connects' = connects + 1
    /\ trace' = Append(trace, [ev |-> "connect", outcome |-> outcome])
    /\ cpc' = AfterConnect(outcome, attempt, max_attempts)
    /\ client' = IF outcome = "ok" THEN FlightClient(location, connects + 1) ELSE client
    /\ raised' = IF cpc' = "raised" THEN ConnectError(outcome, connects + 1) ELSE raised
    /\ UNCHANGED <<location, max_attempts, attempt, sleeps, slept>>
    /\ UNCHANGED <<storeVars, callVars, workerVars, pollVars>>

\* time.sleep(1), then the loop's next iteration.
RetrySleep ==
    /\ cpc = "sleep"
    /\ sleeps' = sleeps + 1
    /\ slept' = slept + RetrySleepSeconds
    /\ trace' = Append(trace, [ev |-> "sleep", outcome |-> "none"])
    /\ attempt' = attempt + 1
    /\ cpc' = "connect"
    /\ UNCHANGED <<location, max_attempts, connects, client, raised>>
    /\ UNCHANGED <<storeVars, callVars, workerVars, pollVars>>

\* range(max_attempts) is exhausted without a return or a raise: the
\* function falls off its end and __init__ stores None.
LoopExhausted ==
    /\ cpc = "connect"
    /\ attempt >= max_attempts
    /\ cpc' = "returned"
    /\ client' = NoneClient
    /\ UNCHANGED <<location, max_attempts, attempt, connects, sleeps, slept,
                   trace, raised>>
    /\ UNCHANGED <<storeVars, callVars, workerVars, pollVars>>

(***************************************************************************)
(* Columnar tables, record batches and the bytes of tickets, descriptors   *)
(* and action bodies.                                                      *)
(***************************************************************************)
\* Arrow logical types an uploaded column can have.
ArrowTypes == {"int32", "int64", "double", "string", "bool", "timestamp",
               "date32", "binary"}

is_integer(t) == t \in {"int32", "int64"}
is_floating(t) == t = "double"
is_string(t) == t = "string"
is_boolean(t) == t = "bool"
is_timestamp(t) == t = "timestamp"
is_date(t) == t = "date32"

Field(name, type) == [name |-> name, type |-> type]
ArrowTable(schema, rows) == [schema |-> schema, rows |-> rows]
NoArrowTable == ArrowTable(<<>>, <<>>)

\* str.encode("utf-8") and bytes.decode("utf-8"): bytes either are the
\* encoding of a text or are not valid UTF-8 at all.
Encode(text) == [utf8 |-> TRUE, text |-> text]
BadBytes == [utf8 |-> FALSE, text |-> [op |-> "none", t |-> "", cols |-> <<>>, row |-> <<>>]]

Err(type, msg, arg) == [type |-> type, msg |-> msg, arg |-> arg]
NoErr == Err("none", "", "")
MustPassSchema == "Must pass schema, or at least one RecordBatch"

Decode(bytes) ==
    IF bytes.utf8
      THEN [ok |-> TRUE, text |-> bytes.text, err |-> NoErr]
      ELSE [ok |-> FALSE, text |-> bytes.text,
            err |-> Err("UnicodeDecodeError", "invalid start byte", "")]

\* The chunk size both handlers pass to Table.to_batches.
MaxChunkSize == 1024

RECURSIVE Chunks(_, _)
Chunks(rows, n) ==
    IF Len(rows) = 0 THEN <<>>
    ELSE IF Len(rows) <= n THEN <<rows>>
    ELSE <<SubSeq(rows, 1, n)>> \o Chunks(SubSeq(rows, n + 1, Len(rows)), n)

\* pyarrow Table.to_batches(max_chunksize): the rows in order, in batches of
\* at most max_chunksize rows; a table without rows gives no batch.
MutToBatchesUnsplit(table, max_chunksize) ==
    IF Len(table.rows) = 0 THEN <<>>
    ELSE <<[schema |-> table.schema, rows |-> table.rows]>>
to_batches(table, max_chunksize) ==
    LET ch == Chunks(table.rows, max_chunksize)
    IN  [i \in 1..Len(ch) |-> [schema |-> table.schema, rows |-> ch[i]]]

RECURSIVE ConcatRows(_)
ConcatRows(batches) ==
    IF batches = <<>> THEN <<>>
    ELSE Head(batches).rows \o ConcatRows(Tail(batches))

\* pyarrow Table.from_batches(batches), no schema given: the schema is the
\* first batch's, so an empty list raises ValueError.
from_batches(batches) ==
    IF Len(batches) = 0
      THEN [ok |-> FALSE, table |-> NoArrowTable,
            err |-> Err("ValueError", MustPassSchema, "")]
    ELSE IF \E i \in 1..Len(batches) : batches[i].schema # batches[1].schema
      THEN [ok |-> FALSE, table |-> NoArrowTable,
            err |-> Err("ArrowInvalid", "Schema at index was different", "")]
    ELSE [ok |-> TRUE,
          table |-> ArrowTable(batches[1].schema, ConcatRows(batches)),
          err |-> NoErr]

(***************************************************************************)
(* The store: what duckdb's connection does with the statements the        *)
(* handlers send it.                                                       *)
(***************************************************************************)
TableNames == {"t", "m"}

NoTable == [exists |-> FALSE, cols |-> <<>>, rows |-> <<>>]
NoTemp == [bound |-> FALSE, schema |-> <<>>, rows |-> <<>>]
Db(tbls, temp) == [tables |-> tbls, temp |-> temp]
EmptyDb == Db([n \in TableNames |-> NoTable], NoTemp)

\* Statements, by what they ask of the store.
Stmt(op, t, cols, row) == [op |-> op, t |-> t, cols |-> cols, row |-> row]
SelectAll(t) == Stmt("select", t, <<>>, <<>>)
CountStar(t) == Stmt("count", t, <<>>, <<>>)
CreateTable(t, cols) == Stmt("create", t, cols, <<>>)
CreateIfNotExists(t, cols) == Stmt("create_if_not_exists", t, cols, <<>>)
InsertValues(t, row) == Stmt("insert_values", t, <<>>, row)
InsertFromTemp(t) == Stmt("insert_from_temp", t, <<>>, <<>>)
SelectTemp == Stmt("select_temp", "", <<>>, <<>>)
InvalidSql == Stmt("invalid", "", <<>>, <<>>)

\* The store type a registered Arrow column is scanned as, and the Arrow
\* type fetch_arrow_table gives a store column.
DuckOfArrow(t) ==
    CASE t = "int32" -> "INTEGER"
      [] t = "int64" -> "BIGINT"
      [] t = "double" -> "DOUBLE"
      [] t = "string" -> "VARCHAR"
      [] t = "bool" -> "BOOLEAN"
      [] t = "timestamp" -> "TIMESTAMP"
      [] t = "date32" -> "DATE"
      [] OTHER -> "BLOB"
ArrowOfDuck(t) ==
    CASE t = "INTEGER" -> "int32"
      [] t = "BIGINT" -> "int64"
      [] t = "DOUBLE" -> "double"
      [] t = "VARCHAR" -> "string"
      [] t = "BOOLEAN" -> "bool"
      [] t = "TIMESTAMP" -> "timestamp"
      [] t = "DATE" -> "date32"
      [] OTHER -> "binary"

\* Whether INSERT converts a value of store type from into a column of
\* store type to.
Numeric == {"INTEGER", "BIGINT", "DOUBLE", "BOOLEAN"}
CanCast(from, to) ==
    \/ from = to
    \/ to = "VARCHAR"
    \/ from \in Numeric /\ to \in Numeric
    \/ from \in {"TIMESTAMP", "DATE"} /\ to \in {"TIMESTAMP", "DATE"}

ExecResult(ok, db, result, err) ==
    [ok |-> ok, db |-> db, result |-> result, err |-> err]
ExecFail(db, type, msg) == ExecResult(FALSE, db, NoArrowTable, Err(type, msg, ""))

StoredTable(cols, rows) == [exists |-> TRUE, cols |-> cols, rows |-> rows]
SetTable(db, t, tbl) == Db([db.tables EXCEPT ![t] = tbl], db.temp)

\* conn.execute(stmt), with the table fetch_arrow_table would give.
Execute(db, stmt) ==
    LET tbl == db.tables[stmt.t] IN
    CASE stmt.op = "invalid" ->
           ExecFail(db, "ParserException", "syntax error")
      [] stmt.op = "select" ->
           IF ~tbl.exists
             THEN ExecFail(db, "CatalogException", "Table does not exist")
             ELSE ExecResult(TRUE, db,
                    ArrowTable([i \in 1..Len(tbl.cols) |->
                                  Field(tbl.cols[i].name, ArrowOfDuck(tbl.cols[i].type))],
                               tbl.rows),
                    NoErr)
      [] stmt.op = "select_temp" ->
           IF ~db.temp.bound
             THEN ExecFail(db, "CatalogException", "Table does not exist")
             ELSE ExecResult(TRUE, db, ArrowTable(db.temp.schema, db.temp.rows), NoErr)
      [] stmt.op = "count" ->
           IF ~tbl.exists
             THEN ExecFail(db, "CatalogException", "Table does not exist")
             ELSE ExecResult(TRUE, db,
                    ArrowTable(<<Field("count_star()", "int64")>>, <<<<Len(tbl.rows)>>>>),
                    NoErr)
      [] stmt.op = "create" ->
           IF tbl.exists
             THEN ExecFail(db, "CatalogException", "Table already exists")
             ELSE ExecResult(TRUE, SetTable(db, stmt.t, StoredTable(stmt.cols, <<>>)),
                             NoArrowTable, NoErr)
      [] stmt.op = "create_if_not_exists" ->
           IF tbl.exists
             THEN ExecResult(TRUE, db, NoArrowTable, NoErr)
             ELSE ExecResult(TRUE, SetTable(db, stmt.t, StoredTable(stmt.cols, <<>>)),
                             NoArrowTable, NoErr)
      [] stmt.op = "insert_values" ->
           IF ~tbl.exists
             THEN ExecFail(db, "CatalogException", "Table does not exist")
           ELSE IF Len(stmt.row) # Len(tbl.cols)
             THEN ExecFail(db, "BinderException", "table has N columns but M values were supplied")
           ELSE ExecResult(TRUE,
                  SetTable(db, stmt.t, StoredTable(tbl.cols, Append(tbl.rows, stmt.row))),
                  ArrowTable(<<Field("Count", "int64")>>, <<<<1>>>>), NoErr)
      [] stmt.op = "insert_from_temp" ->
           IF ~tbl.exists \/ ~db.temp.bound
             THEN ExecFail(db, "CatalogException", "Table does not exist")
           ELSE IF Len(db.temp.schema) # Len(tbl.cols)
             THEN ExecFail(db, "BinderException", "table has N columns but M values were supplied")
           ELSE IF \E i \in 1..Len(tbl.cols) :
                     ~CanCast(DuckOfArrow(db.temp.schema[i].type), tbl.cols[i].type)
             THEN ExecFail(db, "ConversionException", "Could not convert")
           ELSE ExecResult(TRUE,
                  SetTable(db, stmt.t, StoredTable(tbl.cols, tbl.rows \o db.temp.rows)),
                  ArrowTable(<<Field("Count", "int64")>>, <<<<Len(db.temp.rows)>>>>), NoErr)
      [] OTHER -> ExecFail(db, "ParserException", "syntax error")

\* conn.register(name, table): binds the table under the name, replacing
\* whatever the name was bound to.
Register(db, table) ==
    Db(db.tables, [bound |-> TRUE, schema |-> table.schema, rows |-> table.rows])

(***************************************************************************)
(* Table Service: DuckDBFlightServer.do_get, do_put and do_action.  A      *)
(* handler's result is the store it leaves, whether it returned or raised, *)
(* the statements it passed to conn.execute in order, and what it returned.*)
(***************************************************************************)
NoStream == [schema |-> <<>>, batches |-> <<>>]

Handled(db, ok, err, stmts, stream, results) ==
    [called |-> TRUE, db |-> db, ok |-> ok, err |-> err, stmts |-> stmts,
     stream |-> stream, results |-> results]
Raises(db, err, stmts) == Handled(db, FALSE, err, stmts, NoStream, <<>>)
NotCalled(db) ==
    [called |-> FALSE, db |-> db, ok |-> FALSE, err |-> NoErr, stmts |-> <<>>,
     stream |-> NoStream, results |-> <<>>]

\* server.py:40-59.
MutGetDecodesLeniently(db, ticket) ==
    LET r == Execute(db, ticket.text) IN
    IF ~r.ok THEN Raises(r.db, r.err, <<ticket.text>>)
    ELSE
      LET batches == to_batches(r.result, MaxChunkSize)
          fb == from_batches(batches)
      IN  IF ~fb.ok THEN Raises(r.db, fb.err, <<ticket.text>>)
          ELSE Handled(r.db, TRUE, NoErr, <<ticket.text>>,
                       [schema |-> fb.table.schema, batches |-> batches], <<>>)
do_get(db, ticket) ==
    LET dec == Decode(ticket) IN
    IF ~dec.ok THEN Raises(db, dec.err, <<>>)
    ELSE
      LET r == Execute(db, dec.text) IN
      IF ~r.ok THEN Raises(r.db, r.err, <<dec.text>>)
      ELSE
        LET batches == to_batches(r.result, MaxChunkSize)
            fb == from_batches(batches)
        IN  IF ~fb.ok THEN Raises(r.db, fb.err, <<dec.text>>)
            ELSE Handled(r.db, TRUE, NoErr, <<dec.text>>,
                         [schema |-> fb.table.schema, batches |-> batches], <<>>)

\* server.py:82-95: the store type of an uploaded column, first match wins.
MutInferAllVarchar(field_type) == "VARCHAR"
InferType(field_type) ==
    IF is_integer(field_type) THEN "BIGINT"
    ELSE IF is_floating(field_type) THEN "DOUBLE"
    ELSE IF is_string(field_type) THEN "VARCHAR"
    ELSE IF is_boolean(field_type) THEN "BOOLEAN"
    ELSE IF is_timestamp(field_type) THEN "TIMESTAMP"
    ELSE IF is_date(field_type) THEN "DATE"
    ELSE "VARCHAR"

\* server.py:79-97: one "<name> <type>" per field of the uploaded schema.
schema_fields(table) ==
    [i \in 1..Len(table.schema) |->
        Field(table.schema[i].name, InferType(table.schema[i].type))]

NoLocal == [table |-> NoArrowTable, table_name |-> "", stmts |-> <<>>]

\* server.py:71-102: read the upload, decode the name, infer the schema and
\* CREATE TABLE IF NOT EXISTS.
MutPutCreateReplaces(db, descriptor, table) ==
    LET dec == Decode(descriptor) IN
    IF ~dec.ok THEN [ok |-> FALSE, db |-> db, err |-> dec.err, local |-> NoLocal]
    ELSE
      LET stmt == CreateIfNotExists(dec.text, schema_fields(table))
      IN  [ok |-> TRUE, err |-> NoErr,
           db |-> SetTable(db, dec.text, StoredTable(schema_fields(table), <<>>)),
           local |-> [table |-> table, table_name |-> dec.text, stmts |-> <<stmt>>]]
MutPutCreateUsesExisting(db, descriptor, table) ==
    LET dec == Decode(descriptor) IN
    IF ~dec.ok THEN [ok |-> FALSE, db |-> db, err |-> dec.err, local |-> NoLocal]
    ELSE
      LET stmt == CreateIfNotExists(dec.text,
                                    IF db.tables[dec.text].exists
                                      THEN db.tables[dec.text].cols
                                      ELSE schema_fields(table))
          r == Execute(db, stmt)
      IN  [ok |-> r.ok, db |-> r.db, err |-> r.err,
           local |-> [table |-> table, table_name |-> dec.text, stmts |-> <<stmt>>]]
PutCreate(db, descriptor, table) ==
    LET dec == Decode(descriptor) IN
    IF ~dec.ok THEN [ok |-> FALSE, db |-> db, err |-> dec.err, local |-> NoLocal]
    ELSE
      LET stmt == CreateIfNotExists(dec.text, schema_fields(table))
          r == Execute(db, stmt)
      IN  [ok |-> r.ok, db |-> r.db, err |-> r.err,
           local |-> [table |-> table, table_name |-> dec.text, stmts |-> <<stmt>>]]

\* server.py:104-107: re-chunk the upload and register it as "temp_table".
MutRegisterSkipped(db, local) == [ok |-> TRUE, db |-> db, err |-> NoErr, local |-> local]
PutRegister(db, local) ==
    LET fb == from_batches(to_batches(local.table, MaxChunkSize)) IN
    IF ~fb.ok THEN [ok |-> FALSE, db |-> db, err |-> fb.err, local |-> local]
    ELSE [ok |-> TRUE, db |-> Register(db, fb.table), err |-> NoErr, local |-> local]

\* server.py:109-111: INSERT INTO <name> SELECT * FROM temp_table.
MutInsertOverwrites(db, local) ==
    LET stmt == InsertFromTemp(local.table_name)
        r == Execute(db, stmt)
    IN  [ok |-> r.ok, err |-> r.err,
         db |-> IF ~r.ok THEN r.db
                ELSE SetTable(db, local.table_name,
                              StoredTable(db.tables[local.table_name].cols, db.temp.rows)),
         local |-> [local EXCEPT !.stmts = Append(local.stmts, stmt)]]
MutInsertFailsHalfway(db, local) ==
    LET stmt == InsertFromTemp(local.table_name)
        r == Execute(db, stmt)
        tbl == db.tables[local.table_name]
    IN  [ok |-> r.ok, err |-> r.err,
         db |-> IF r.ok \/ ~tbl.exists \/ ~db.temp.bound THEN r.db
                ELSE SetTable(db, local.table_name,
                              StoredTable(tbl.cols, tbl.rows \o db.temp.rows)),
         local |-> [local EXCEPT !.stmts = Append(local.stmts, stmt)]]
PutInsert(db, local) ==
    LET stmt == InsertFromTemp(local.table_name)
        r == Execute(db, stmt)
    IN  [ok |-> r.ok, db |-> r.db, err |-> r.err,
         local |-> [local EXCEPT !.stmts = Append(local.stmts, stmt)]]

\* server.py:61-111, run by one thread without interruption.
do_put(db, descriptor, table) ==
    LET c == PutCreate(db, descriptor, table) IN
    IF ~c.ok THEN Raises(c.db, c.err, c.local.stmts)
    ELSE
      LET g == PutRegister(c.db, c.local) IN
      IF ~g.ok THEN Raises(g.db, g.err, g.local.stmts)
      ELSE
        LET i == PutInsert(g.db, g.local) IN
        IF ~i.ok THEN Raises(i.db, i.err, i.local.stmts)
        ELSE Handled(i.db, TRUE, NoErr, i.local.stmts, NoStream, <<>>)

UnknownActionMsg == "Unknown action type: "

\* server.py:124: the action types the handler recognises.
MutRecognisesAll(type) == TRUE
IsQueryAction(type) == type = "query"

\* server.py:113-132.
MutActionDiscardsEffect(db, action) ==
    IF IsQueryAction(action.type)
      THEN
        LET dec == Decode(action.body) IN
        IF ~dec.ok THEN Raises(db, dec.err, <<>>)
        ELSE
          LET r == Execute(db, dec.text) IN
          IF ~r.ok THEN Raises(db, r.err, <<dec.text>>)
          ELSE Handled(db, TRUE, NoErr, <<dec.text>>, NoStream, <<>>)
      ELSE Raises(db, Err("NotImplementedError", UnknownActionMsg, action.type), <<>>)
MutActionReturnsResult(db, action) ==
    IF IsQueryAction(action.type)
      THEN
        LET dec == Decode(action.body) IN
        IF ~dec.ok THEN Raises(db, dec.err, <<>>)
        ELSE
          LET r == Execute(db, dec.text) IN
          IF ~r.ok THEN Raises(r.db, r.err, <<dec.text>>)
          ELSE Handled(r.db, TRUE, NoErr, <<dec.text>>, NoStream, <<"done">>)
      ELSE Raises(db, Err("NotImplementedError", UnknownActionMsg, action.type), <<>>)
do_action(db, action) ==
    IF IsQueryAction(action.type)
      THEN
        LET dec == Decode(action.body) IN
        IF ~dec.ok THEN Raises(db, dec.err, <<>>)
        ELSE
          LET r == Execute(db, dec.text) IN
          IF ~r.ok THEN Raises(r.db, r.err, <<dec.text>>)
          ELSE Handled(r.db, TRUE, NoErr, <<dec.text>>, NoStream, <<>>)
      ELSE Raises(db, Err("NotImplementedError", UnknownActionMsg, action.type), <<>>)

(***************************************************************************)
(* Client Facade: DuckDBFlightClient.execute_query, upload_data and        *)
(* execute_action.  The transport is an opaque substrate: each of its      *)
(* calls may raise (fault), and an exception raised by the server handler  *)
(* reaches the client as an exception of one of the transport's calls.     *)
(***************************************************************************)
CErr(type, parts) == [type |-> type, parts |-> parts]
NoCErr == CErr("none", <<>>)

\* The exception the client sees for an exception raised in a handler: the
\* transport carries the message along and maps the exception's class to a
\* status; ValueErrors arrive as ArrowInvalid, itself a ValueError.
ToClient(err) ==
    CErr(CASE err.type \in {"ValueError", "UnicodeDecodeError", "ArrowInvalid"} -> "ArrowInvalid"
           [] err.type = "NotImplementedError" -> "ArrowNotImplementedError"
           [] OTHER -> "FlightServerError",
         <<err.msg, err.arg, "Detail: Python exception">>)

\* isinstance(e, ValueError).
IsValueError(e) == e.type \in {"ValueError", "ArrowInvalid"}
\* s in str(e).
InMessage(s, e) == \E i \in 1..Len(e.parts) : e.parts[i] = s

Fault(step, err) == [step |-> step, err |-> err]
NoFault == Fault("none", NoCErr)
Unavailable == CErr("FlightUnavailableError", <<"failed to connect to all addresses">>)

RetValue(kind, table, results, err) ==
    [kind |-> kind, table |-> table, results |-> results, err |-> err]
NoRet == RetValue("none", NoArrowTable, <<>>, NoCErr)
RetNone == RetValue("None", NoArrowTable, <<>>, NoCErr)
RetTrue == RetValue("True", NoArrowTable, <<>>, NoCErr)
RetFalse == RetValue("False", NoArrowTable, <<>>, NoCErr)
RetTable(table) == RetValue("table", table, <<>>, NoCErr)
RetList(results) == RetValue("list", NoArrowTable, results, NoCErr)
Reraised(e) == RetValue("raised", NoArrowTable, <<>>, e)

\* reader.read_all(): the stream's batches as one table of the stream's schema.
read_all(stream) == ArrowTable(stream.schema, ConcatRows(stream.batches))

\* client.py:101-103, 156-158, 177-179: the outer except Exception clauses.
MutQueryReraises(e) == Reraised(e)
QueryExcept(e) == RetNone
MutUploadReraises(e) == Reraised(e)
MutUploadReportsTrue(e) == RetTrue
UploadExcept(e) == RetFalse
MutActionReraises(e) == Reraised(e)
ActionExcept(e) == RetList(<<>>)

\* client.py:90-100: the inner except ValueError clause around read_all.
ReadAllExcept(ve) ==
    IF InMessage(MustPassSchema, ve)
      THEN RetTable(ArrowTable(<<>>, <<>>))
      ELSE QueryExcept(ve)

Caught(at, e) == [at |-> at, exc |-> e]
NoneCaught == Caught("none", NoCErr)
Outcome(h, r, c) == [srv |-> h, ret |-> r, caught |-> c, writer |-> "none"]
\* The state of the writer do_put returned when the method is left.
WithWriter(o, w) == [o EXCEPT !.writer = w]

\* client.py:71-103.  relayAt: the transport call at which a handler's
\* exception surfaces.
execute_query(db, query, fault, relayAt) ==
    LET ticket == Encode(query) IN
    IF fault.step = "do_get"
      THEN Outcome(NotCalled(db), QueryExcept(fault.err), Caught("do_get", fault.err))
    ELSE
      LET h == do_get(db, ticket)
          e == IF fault.step = "read_all" THEN fault.err ELSE ToClient(h.err)
      IN  IF ~h.ok /\ relayAt = "do_get"
            THEN Outcome(h, QueryExcept(ToClient(h.err)), Caught("do_get", ToClient(h.err)))
          ELSE IF fault.step = "read_all" \/ ~h.ok
            THEN Outcome(h, IF IsValueError(e) THEN ReadAllExcept(e) ELSE QueryExcept(e),
                         Caught("read_all", e))
          ELSE Outcome(h, RetTable(read_all(h.stream)), NoneCaught)

\* client.py:105-135.  from_arrow_raises: whether pl.from_arrow raises.
RetFrame(table) == RetValue("DataFrame", table, <<>>, NoCErr)
ConversionError == CErr("ComputeError", <<"cannot convert">>)
PolarsExcept(e) == RetFrame(NoArrowTable)
MutPolarsPassesNone(db, query, fault, relayAt, from_arrow_raises) ==
    LET o == execute_query(db, query, fault, relayAt) IN
    IF from_arrow_raises /\ o.ret.kind # "None"
      THEN Outcome(o.srv, PolarsExcept(ConversionError),
                   Caught("from_arrow", ConversionError))
    ELSE IF o.ret.kind = "None" THEN Outcome(o.srv, RetNone, o.caught)
    ELSE Outcome(o.srv, RetFrame(o.ret.table), o.caught)
execute_query_to_polars(db, query, fault, relayAt, from_arrow_raises) ==
    LET o == execute_query(db, query, fault, relayAt) IN
    IF o.ret.kind = "None" THEN Outcome(o.srv, RetFrame(NoArrowTable), o.caught)
    ELSE IF from_arrow_raises
      THEN Outcome(o.srv, PolarsExcept(ConversionError),
                   Caught("from_arrow", ConversionError))
    ELSE Outcome(o.srv, RetFrame(o.ret.table), o.caught)

StreamBroken == Err("FlightCancelledError", "stream closed", "")

\* client.py:137-158.
upload_data(db, table_name, table, fault) ==
    LET descriptor == Encode(table_name) IN
    IF fault.step = "do_put"
      THEN Outcome(NotCalled(db), UploadExcept(fault.err), Caught("do_put", fault.err))
    ELSE IF fault.step = "write_table"
      THEN WithWriter(Outcome(Raises(db, StreamBroken, <<>>), UploadExcept(fault.err),
                              Caught("write_table", fault.err)), "open")
    ELSE
      LET h == do_put(db, descriptor, table) IN
      IF fault.step = "close"
        THEN WithWriter(Outcome(h, UploadExcept(fault.err), Caught("close", fault.err)),
                        "closed")
      ELSE IF ~h.ok
        THEN WithWriter(Outcome(h, UploadExcept(ToClient(h.err)),
                                Caught("close", ToClient(h.err))), "closed")
      ELSE WithWriter(Outcome(h, RetTrue, NoneCaught), "closed")

\* flight.Action(action_type, body.encode() if body else None).
EmptyBody == Encode(Stmt("empty", "", <<>>, <<>>))
Body(text) == [given |-> TRUE, text |-> text]
NoBody == [given |-> FALSE, text |-> Stmt("empty", "", <<>>, <<>>)]
Action(type, body) ==
    [type |-> type, body |-> IF body.given THEN Encode(body.text) ELSE EmptyBody]

\* client.py:160-179.
execute_action(db, action_type, body, fault) ==
    LET action == Action(action_type, body) IN
    IF fault.step = "do_action"
      THEN Outcome(NotCalled(db), ActionExcept(fault.err), Caught("do_action", fault.err))
    ELSE
      LET h == do_action(db, action) IN
      IF fault.step = "results"
        THEN Outcome(h, ActionExcept(fault.err), Caught("results", fault.err))
      ELSE IF ~h.ok
        THEN Outcome(h, ActionExcept(ToClient(h.err)), Caught("results", ToClient(h.err)))
      ELSE Outcome(h, RetList(h.results), NoneCaught)

(***************************************************************************)
(* The inputs of the facade calls.                                         *)
(***************************************************************************)
IdName == <<Field("id", "int64"), Field("name", "string")>>
T1 == ArrowTable(IdName, << <<1, 11>>, <<2, 12>> >>)
T2 == ArrowTable(IdName, << <<4, 14>> >>)
T0 == ArrowTable(IdName, <<>>)
TValue == ArrowTable(<<Field("value", "double")>>, << <<30>> >>)
TNameId == ArrowTable(<<Field("name", "string"), Field("id", "int64")>>, << <<15, 5>> >>)
TMixed == ArrowTable(<<Field("n", "int32"), Field("active", "bool"),
                       Field("ts", "timestamp"), Field("d", "date32"),
                       Field("raw", "binary")>>,
                     << <<7, 1, 100, 10, 99>> >>)
Uploads == {T1, T2, T0, TValue, TNameId, TMixed}

Queries == {SelectAll(n) : n \in TableNames} \cup {CountStar(n) : n \in TableNames}
             \cup {InvalidSql}

ActionCols == <<Field("id", "INTEGER"), Field("name", "VARCHAR")>>
ActionBodies == {CreateTable(n, ActionCols) : n \in TableNames}
                  \cup {InsertValues("t", <<1, 21>>), SelectAll("t"), InvalidSql}
ActionCalls == {<<"query", Body(b)>> : b \in ActionBodies}
                 \cup {<<"list_tables", NoBody>>, <<"bogus", NoBody>>,
                       <<"bogus", Body(CreateTable("t", ActionCols))>>}

ValueErrorNoBatch == CErr("ArrowInvalid", <<MustPassSchema>>)
ValueErrorOther == CErr("ValueError", <<"bad value">>)
QueryFaults == {NoFault, Fault("do_get", Unavailable), Fault("read_all", Unavailable),
                Fault("read_all", ValueErrorNoBatch), Fault("read_all", ValueErrorOther)}
UploadFaults == {NoFault, Fault("do_put", Unavailable), Fault("write_table", Unavailable),
                 Fault("close", Unavailable)}
ActionFaults == {NoFault, Fault("do_action", Unavailable), Fault("results", Unavailable)}

(***************************************************************************)
(* Spec: a connected client calling the facade, each call served by the    *)
(* server's handler on its one store connection.                           *)
(***************************************************************************)
NoCall == [op |-> "none", name |-> "", query |-> InvalidSql, table |-> NoArrowTable,
           type |-> "", body |-> NoBody, fault |-> NoFault, pre |-> EmptyDb,
           utf8 |-> TRUE, from_arrow_raises |-> FALSE]
Served(h) == [called |-> h.called, ok |-> h.ok, err |-> h.err, stmts |-> h.stmts,
              stream |-> h.stream, results |-> h.results]

DefaultLocation == <<"grpc", "localhost", 8815>>
DefaultMaxAttempts == 5

NoPoll == [pc |-> "none", table_name |-> "", max_attempts |-> 0, attempt |-> 0,
           queries |-> 0, sleeps |-> 0, slept |-> 0, trace |-> <<>>, ret |-> "none"]

InitIdleWorkers ==
    /\ wpc = <<>>
    /\ wreq = <<>>
    /\ wlocal = <<>>

Init ==
    /\ location = DefaultLocation
    /\ max_attempts = DefaultMaxAttempts
    /\ attempt = 0
    /\ cpc = "returned"
    /\ connects = 1
    /\ sleeps = 0
    /\ slept = 0
    /\ trace = <<[ev |-> "connect", outcome |-> "ok"]>>
    /\ client = FlightClient(DefaultLocation, 1)
    /\ raised = NoError
    /\ tables = EmptyDb.tables
    /\ temp_table = EmptyDb.temp
    /\ ncalls = 0
    /\ call = NoCall
    /\ srv = Served(NotCalled(EmptyDb))
    /\ ret = NoRet
    /\ caught = NoneCaught
    /\ writer = "none"
    /\ InitIdleWorkers
    /\ poll = NoPoll

MutFinishReconnects(c, o) ==
    /\ ncalls' = ncalls + 1
    /\ call' = c
    /\ srv' = Served(o.srv)
    /\ ret' = o.ret
    /\ caught' = o.caught
    /\ tables' = o.srv.db.tables
    /\ temp_table' = o.srv.db.temp
    /\ connects' = IF o.caught.at # "none" THEN connects + 1 ELSE connects
    /\ client' = IF o.caught.at # "none" THEN FlightClient(location, connects + 1)
                  ELSE client
    /\ trace' = IF o.caught.at # "none"
                   THEN Append(trace, [ev |-> "connect", outcome |-> "ok"])
                   ELSE trace
    /\ writer' = o.writer
    /\ UNCHANGED <<location, max_attempts, attempt, cpc, sleeps, slept, raised>>
    /\ UNCHANGED <<workerVars, pollVars>>
Finish(c, o) ==
    /\ ncalls' = ncalls + 1
    /\ call' = c
    /\ srv' = Served(o.srv)
    /\ ret' = o.ret
    /\ caught' = o.caught
    /\ tables' = o.srv.db.tables
    /\ temp_table' = o.srv.db.temp
    /\ writer' = o.writer
    /\ UNCHANGED <<connVars, workerVars, pollVars>>

ExecuteQuery(query, fault, relayAt) ==
    /\ client.kind = "FlightClient"
    /\ ncalls < MaxCalls
    /\ Finish([NoCall EXCEPT !.op = "execute_query", !.query = query, !.fault = fault,
                             !.pre = Db(tables, temp_table)],
              execute_query(Db(tables, temp_table), query, fault, relayAt))

UploadData(table_name, table, fault) ==
    /\ client.kind = "FlightClient"
    /\ ncalls < MaxCalls
    /\ Finish([NoCall EXCEPT !.op = "upload_data", !.name = table_name, !.table = table,
                             !.fault = fault, !.pre = Db(tables, temp_table)],
              upload_data(Db(tables, temp_table), table_name, table, fault))

ExecuteAction(action_type, body, fault) ==
    /\ client.kind = "FlightClient"
    /\ ncalls < MaxCalls
    /\ Finish([NoCall EXCEPT !.op = "execute_action", !.type = action_type, !.body = body,
                             !.fault = fault, !.pre = Db(tables, temp_table)],
              execute_action(Db(tables, temp_table), action_type, body, fault))

ExecuteQueryToPolars(query, fault, relayAt, from_arrow_raises) ==
    /\ client.kind = "FlightClient"
    /\ ncalls < MaxCalls
    /\ Finish([NoCall EXCEPT !.op = "execute_query_to_polars", !.query = query,
                             !.fault = fault, !.from_arrow_raises = from_arrow_raises,
                             !.pre = Db(tables, temp_table)],
              execute_query_to_polars(Db(tables, temp_table), query, fault, relayAt,
                                      from_arrow_raises))

Next ==
    \/ \E q \in Queries, f \in QueryFaults, at \in {"do_get", "read_all"} :
          ExecuteQuery(q, f, at)
    \/ \E n \in TableNames, t \in Uploads, f \in UploadFaults : UploadData(n, t, f)
    \/ \E a \in ActionCalls, f \in ActionFaults : ExecuteAction(a[1], a[2], f)

Spec == Init /\ [][Next]_vars

(***************************************************************************)
(* SpecPuts: a connected client that uploads tables, to names that are     *)
(* absent, were created by an earlier upload or were created by a query    *)
(* action, and reads them back.                                            *)
(***************************************************************************)
NextPuts ==
    \/ \E n \in TableNames, t \in Uploads, f \in UploadFaults : UploadData(n, t, f)
    \/ \E n \in TableNames : ExecuteQuery(SelectAll(n), NoFault, "do_get")
    \/ \E n \in TableNames :
          ExecuteAction("query", Body(CreateTable(n, ActionCols)), NoFault)

SpecPuts == Init /\ [][NextPuts]_vars

(***************************************************************************)
(* SpecPositional: a connected client that uploads tables whose columns    *)
(* differ in name or in order from the table they are put into, and reads  *)
(* them back.                                                              *)
(***************************************************************************)
TKeyLabel == ArrowTable(<<Field("key", "int64"), Field("label", "string")>>, << <<6, 16>> >>)
TKeyLabel0 == ArrowTable(TKeyLabel.schema, <<>>)
TXY == ArrowTable(<<Field("x", "int64"), Field("y", "double")>>, << <<8, 31>> >>)
TYX == ArrowTable(<<Field("y", "double"), Field("x", "int64")>>, << <<32, 9>> >>)
NextPositional ==
    \/ \E n \in TableNames, t \in {T1, TKeyLabel, TKeyLabel0, TXY, TYX} : UploadData(n, t, NoFault)
    \/ \E n \in TableNames : ExecuteQuery(SelectAll(n), NoFault, "do_get")

SpecPositional == Init /\ [][NextPositional]_vars

(***************************************************************************)
(* SpecPolars: a connected client that uploads tables and queries them     *)
(* with execute_query_to_polars.                                           *)
(***************************************************************************)
PolarsUploads == {T1, TValue}

NextPolars ==
    \/ \E n \in TableNames, t \in PolarsUploads : UploadData(n, t, NoFault)
    \/ \E n \in TableNames :
          ExecuteAction("query", Body(CreateTable(n, ActionCols)), NoFault)
    \/ \E q \in Queries, f \in QueryFaults, at \in {"do_get", "read_all"},
           from_arrow_raises \in BOOLEAN :
          ExecuteQueryToPolars(q, f, at, from_arrow_raises)

SpecPolars == Init /\ [][NextPolars]_vars

(***************************************************************************)
(* SpecConnect: constructing a client, for every max_attempts and every    *)
(* sequence of outcomes of flight.connect.                                 *)
(***************************************************************************)
InitNoCalls ==
    /\ tables = EmptyDb.tables
    /\ temp_table = EmptyDb.temp
    /\ ncalls = 0
    /\ call = NoCall
    /\ srv = Served(NotCalled(EmptyDb))
    /\ ret = NoRet
    /\ caught = NoneCaught
    /\ writer = "none"

InitConnect ==
    /\ location \in {<<"grpc", h, p>> : h \in Hosts, p \in Ports}
    /\ max_attempts \in -1..MaxAttemptsBound
    /\ InitConnVars
    /\ InitNoCalls
    /\ InitIdleWorkers
    /\ poll = NoPoll

NextConnect ==
    \/ \E outcome \in ConnectOutcomes : ConnectAttempt(outcome)
    \/ RetrySleep
    \/ LoopExhausted

SpecConnect == InitConnect /\ [][NextConnect]_vars

(***************************************************************************)
(* SpecConc: two do_put calls served by two handler threads on the one     *)
(* store connection.  A thread's accesses to the connection (execute,      *)
(* register, execute) are the steps another thread can come between.       *)
(***************************************************************************)
Workers == {"P1", "P2"}
ConcUploads == {T1, T2, T0}

InitConc ==
    /\ location = DefaultLocation
    /\ max_attempts = DefaultMaxAttempts
    /\ InitConnVars
    /\ InitNoCalls
    /\ wpc = [w \in Workers |-> "idle"]
    /\ wreq = [w \in Workers |-> [name |-> "", table |-> NoArrowTable]]
    /\ wlocal = [w \in Workers |-> NoLocal]
    /\ poll = NoPoll

StepTo(w, r, next) ==
    /\ wpc' = [wpc EXCEPT ![w] = IF r.ok THEN next ELSE "failed"]
    /\ wlocal' = [wlocal EXCEPT ![w] = r.local]
    /\ tables' = r.db.tables
    /\ temp_table' = r.db.temp
    /\ UNCHANGED <<connVars, callVars, pollVars>>

\* The handler starts: server.py:71-102.
PutCreateStep(w, table_name, table) ==
    /\ wpc[w] = "idle"
    /\ wreq' = [wreq EXCEPT ![w] = [name |-> table_name, table |-> table]]
    /\ StepTo(w, PutCreate(Db(tables, temp_table), Encode(table_name), table), "register")

\* server.py:104-107.
PutRegisterStep(w) ==
    /\ wpc[w] = "register"
    /\ wreq' = wreq
    /\ StepTo(w, PutRegister(Db(tables, temp_table), wlocal[w]), "insert")

\* server.py:109-111.
PutInsertStep(w) ==
    /\ wpc[w] = "insert"
    /\ wreq' = wreq
    /\ StepTo(w, PutInsert(Db(tables, temp_table), wlocal[w]), "done")

NextConc ==
    \/ \E w \in Workers, n \in TableNames, t \in ConcUploads : PutCreateStep(w, n, t)
    \/ \E w \in Workers : PutRegisterStep(w)
    \/ \E w \in Workers : PutInsertStep(w)

SpecConc == InitConc /\ [][NextConc]_vars

(***************************************************************************)
(* SpecServer: the handlers called directly by a Flight peer, which can    *)
(* send any bytes as ticket, descriptor path or action body, and tables    *)
(* of more rows than one batch holds.                                      *)
(***************************************************************************)
IdOnly == <<Field("id", "int64")>>
Big(k) == ArrowTable(IdOnly, [i \in 1..k |-> <<i>>])
BulkSizes == {0, 1, MaxChunkSize, MaxChunkSize + 1, 2 * MaxChunkSize + 1}
BulkUploads == {Big(k) : k \in BulkSizes} \cup {T2}

Tickets == {Encode(SelectAll(n)) : n \in TableNames}
             \cup {Encode(CountStar("t")), Encode(SelectTemp), Encode(InvalidSql), BadBytes}
\* A descriptor path that is not valid UTF-8.
BadPath == [utf8 |-> FALSE, text |-> ""]
Descriptors == {Encode(n) : n \in TableNames} \cup {BadPath}
Actions == {[type |-> "query", body |-> Encode(CreateTable("m", <<Field("id", "INTEGER")>>))],
            [type |-> "query", body |-> BadBytes],
            [type |-> "list_tables", body |-> EmptyBody],
            [type |-> "bogus", body |-> BadBytes]}

InitServer ==
    /\ location = DefaultLocation
    /\ max_attempts = DefaultMaxAttempts
    /\ InitConnVars
    /\ InitNoCalls
    /\ InitIdleWorkers
    /\ poll = NoPoll

\* The handler runs and its exception, if any, goes to the peer.
Serve(c, h) ==
    /\ ncalls < MaxServerCalls
    /\ Finish([c EXCEPT !.pre = Db(tables, temp_table)], Outcome(h, NoRet, NoneCaught))

DoGet(ticket) ==
    Serve([NoCall EXCEPT !.op = "do_get", !.query = ticket.text, !.utf8 = ticket.utf8],
          do_get(Db(tables, temp_table), ticket))

DoPut(descriptor, table) ==
    Serve([NoCall EXCEPT !.op = "do_put", !.table = table, !.utf8 = descriptor.utf8,
                         !.name = descriptor.text],
          do_put(Db(tables, temp_table), descriptor, table))

DoAction(action) ==
    Serve([NoCall EXCEPT !.op = "do_action", !.type = action.type,
                         !.body = Body(action.body.text), !.utf8 = action.body.utf8],
          do_action(Db(tables, temp_table), action))

NextServer ==
    \/ \E ticket \in Tickets : DoGet(ticket)
    \/ \E descriptor \in Descriptors, table \in BulkUploads : DoPut(descriptor, table)
    \/ \E action \in Actions : DoAction(action)

SpecServer == InitServer /\ [][NextServer]_vars

(***************************************************************************)
(* SpecWait: query_data.wait_for_table polling for a table while another   *)
(* client's puts are served.  SpecWaitFair adds that the polling thread    *)
(* keeps running: its query returns or raises and its sleep ends.          *)
(***************************************************************************)
PollSleepSeconds == 1

\* query_data.py:24-32: the result table, or None for every exception.
query_data_execute_query(db, query, fault) ==
    IF fault.step = "do_get" THEN [srv |-> NotCalled(db), result |-> RetNone]
    ELSE
      LET h == do_get(db, Encode(query)) IN
      IF fault.step = "read_all" \/ ~h.ok THEN [srv |-> h, result |-> RetNone]
      ELSE [srv |-> h, result |-> RetTable(read_all(h.stream))]

\* query_data.py:35: the call, with its arguments.
WaitForTable(table_name, m) ==
    /\ poll.pc = "none"
    /\ poll' = [NoPoll EXCEPT !.pc = "query", !.table_name = table_name,
                              !.max_attempts = m]
    /\ UNCHANGED <<connVars, storeVars, callVars, workerVars>>

\* query_data.py:37-39: one iteration up to its sleep.
PollQuery(fault) ==
    /\ poll.pc = "query"
    /\ poll.attempt < poll.max_attempts
    /\ LET r == query_data_execute_query(Db(tables, temp_table),
                                         CountStar(poll.table_name), fault)
           found == r.result # RetNone
       IN  /\ poll' = [poll EXCEPT !.queries = @ + 1,
                                   !.trace = Append(@, IF found THEN "found" ELSE "none"),
                                   !.pc = IF found THEN "returned" ELSE "sleep",
                                   !.ret = IF found THEN "True" ELSE @]
           /\ tables' = r.srv.db.tables
           /\ temp_table' = r.srv.db.temp
    /\ UNCHANGED <<connVars, callVars, workerVars>>

\* query_data.py:40-43: time.sleep(1), then the loop's next iteration.
PollSleep ==
    /\ poll.pc = "sleep"
    /\ poll' = [poll EXCEPT !.sleeps = @ + 1, !.slept = @ + PollSleepSeconds,
                            !.trace = Append(@, "sleep"),
                            !.attempt = @ + 1, !.pc = "query"]
    /\ UNCHANGED <<connVars, storeVars, callVars, workerVars>>

\* query_data.py:36, 44: range(max_attempts) is exhausted.
MutPollOneFewer ==
    /\ poll.pc = "query"
    /\ poll.attempt >= poll.max_attempts - 1
    /\ poll' = [poll EXCEPT !.pc = "returned", !.ret = "False"]
    /\ UNCHANGED <<connVars, storeVars, callVars, workerVars>>
PollExhausted ==
    /\ poll.pc = "query"
    /\ poll.attempt >= poll.max_attempts
    /\ poll' = [poll EXCEPT !.pc = "returned", !.ret = "False"]
    /\ UNCHANGED <<connVars, storeVars, callVars, workerVars>>

PollStep ==
    \/ \E fault \in {NoFault, Fault("do_get", Unavailable), Fault("read_all", Unavailable)} :
          PollQuery(fault)
    \/ PollSleep
    \/ PollExhausted

NextWait ==
    \/ \E n \in TableNames, m \in -1..MaxPollBound : WaitForTable(n, m)
    \/ PollStep
    \/ \E n \in TableNames, table \in {T1, T0} : DoPut(Encode(n), table)

SpecWait == InitServer /\ [][NextWait]_vars
SpecWaitFair == SpecWait /\ WF_vars(PollStep)

(***************************************************************************)
(* Properties of the Retry-Connector (SpecConnect).                        *)
(***************************************************************************)
ConnectEvents == SelectSeq(trace, LAMBDA e : e.ev = "connect")
Transient(e) == e.ev = "connect" /\ e.outcome = "FlightUnavailableError"
NonTransient(e) == e.ev = "connect" /\ e.outcome \notin {"ok", "FlightUnavailableError"}
AllTransient == \A i \in 1..Len(ConnectEvents) : Transient(ConnectEvents[i])
ConnectDone == cpc \in {"returned", "raised"}

\* C1: with max_attempts = N >= 1 and every attempt failing with the
\* transient error, never more than N attempts are made, the function is
\* left only by raising, it raises once exactly N attempts are made, and the
\* exception raised is the one of the N-th attempt.
C1_ExhaustsAfterExactlyN ==
    (max_attempts >= 1 /\ AllTransient) =>
        /\ connects <= max_attempts
        /\ connects = Len(ConnectEvents)
        /\ ConnectDone <=> connects = max_attempts
        /\ ConnectDone =>
              /\ cpc = "raised"
              /\ raised = ConnectError("FlightUnavailableError", max_attempts)
              /\ client = NoClient

C1_Witness ==
    /\ max_attempts = 3
    /\ AllTransient
    /\ cpc = "raised"
    /\ connects = 3

\* C2: if attempts 1..k-1 fail with the transient error and attempt k
\* (k <= N) succeeds, exactly k attempts are made, none after the successful
\* one, and the client's handle is the connection attempt k produced.
C2_SuccessAtKStopsAtK ==
    \A k \in 1..Len(ConnectEvents) :
        ConnectEvents[k].outcome = "ok" =>
            /\ \A j \in 1..(k - 1) : Transient(ConnectEvents[j])
            /\ k <= max_attempts
            /\ connects = k
            /\ Len(ConnectEvents) = k
            /\ cpc = "returned"
            /\ client = FlightClient(location, k)
            /\ raised = NoError

C2_Witness ==
    /\ max_attempts = 4
    /\ Len(ConnectEvents) = 3
    /\ ConnectEvents[3].outcome = "ok"
    /\ client = FlightClient(location, 3)

\* C3: every wait is one second long, directly follows a failed transient
\* attempt and is followed by the next attempt; once the function is left
\* after at least one attempt, the waits number one less than the attempts,
\* so the last event is an attempt, never a wait.
C3_WaitsBetweenAttempts ==
    /\ slept = sleeps
    /\ sleeps = Len(SelectSeq(trace, LAMBDA e : e.ev = "sleep"))
    /\ \A i \in 1..Len(trace) :
          trace[i].ev = "sleep" =>
              /\ i > 1
              /\ Transient(trace[i - 1])
              /\ IF i < Len(trace)
                   THEN trace[i + 1].ev = "connect"
                   ELSE cpc = "connect" /\ attempt < max_attempts
    /\ (ConnectDone /\ connects >= 1) =>
          /\ sleeps = connects - 1
          /\ trace[Len(trace)].ev = "connect"

C3_Witness ==
    /\ cpc = "raised"
    /\ connects = 3
    /\ sleeps = 2
    /\ slept = 2
    /\ AllTransient

\* C4: a non-transient failure of the j-th attempt ends the function at
\* once with that error: it is the last event, j attempts and j - 1 waits
\* were made, and no client is stored.
C4_NonTransientFailsAtOnce ==
    \A i \in 1..Len(trace) :
        NonTransient(trace[i]) =>
            /\ i = Len(trace)
            /\ cpc = "raised"
            /\ raised = ConnectError(trace[i].outcome, connects)
            /\ connects = Len(ConnectEvents)
            /\ connects <= max_attempts
            /\ sleeps = connects - 1
            /\ client = NoClient

C4_Witness ==
    /\ cpc = "raised"
    /\ raised = ConnectError("ArrowInvalid", 3)
    /\ sleeps = 2

(***************************************************************************)
(* Properties of concurrent puts (SpecConc).                               *)
(***************************************************************************)
Occurrences(seq, x) == Cardinality({i \in 1..Len(seq) : seq[i] = x})
SameRows(a, b) ==
    /\ Len(a) = Len(b)
    /\ \A i \in 1..Len(a) : Occurrences(a, a[i]) = Occurrences(b, a[i])

\* C5: when two concurrent puts to one table name have both completed, the
\* table holds the rows of the first upload once and the rows of the second
\* upload once, whatever the interleaving of their steps.
C5_ConcurrentPutsKeepOwnRows ==
    (/\ wpc["P1"] = "done"
     /\ wpc["P2"] = "done"
     /\ wreq["P1"].name = wreq["P2"].name) =>
        SameRows(tables[wreq["P1"].name].rows,
                 wreq["P1"].table.rows \o wreq["P2"].table.rows)

(***************************************************************************)
(* Properties of the facade and of the handlers it reaches (Spec).         *)
(***************************************************************************)
EmptyNoColumns == ArrowTable(<<>>, <<>>)
NoBatchValueError(c) ==
    /\ c.at = "read_all"
    /\ c.exc.type \in {"ValueError", "ArrowInvalid"}
    /\ \E i \in 1..Len(c.exc.parts) : c.exc.parts[i] = MustPassSchema

\* C6 as stated: whenever a transport call of a facade method raises, the
\* method does not raise and returns its sentinel: None for execute_query,
\* False for upload_data, the empty list for execute_action.
C6_EveryFailureGivesSentinel ==
    caught.at # "none" =>
        /\ ret.kind # "raised"
        /\ call.op = "execute_query" => ret = RetNone
        /\ call.op = "upload_data" => ret = RetFalse
        /\ call.op = "execute_action" => ret = RetList(<<>>)

\* C6 as amended: whenever a transport call of a facade method raises, the
\* method does not raise; upload_data returns False, execute_action the
\* empty list, and execute_query None, except that a ValueError of read_all
\* whose message contains "Must pass schema, or at least one RecordBatch"
\* makes execute_query return an empty table without columns.
C6_FailureGivesSentinelOrEmptyTable ==
    caught.at # "none" =>
        /\ ret.kind # "raised"
        /\ call.op = "execute_query" =>
              ret = IF NoBatchValueError(caught) THEN RetTable(EmptyNoColumns) ELSE RetNone
        /\ call.op = "upload_data" => ret = RetFalse
        /\ call.op = "execute_action" => ret = RetList(<<>>)

C6_Witness ==
    /\ call.op = "execute_query"
    /\ call.fault = Fault("read_all", ValueErrorNoBatch)
    /\ srv.ok
    /\ ret = RetTable(EmptyNoColumns)

UnknownActionServed ==
    /\ call.op = "execute_action"
    /\ call.type # "query"
    /\ call.fault = NoFault
    /\ srv.called

\* C7 as stated: an action of a type the server does not recognise ends
\* with an error raised to the caller of execute_action, not with the empty
\* list a successful action returns.
C7_UnknownActionRaisedToCaller ==
    UnknownActionServed => (ret.kind = "raised" /\ ret # RetList(<<>>))

\* C7 as amended: for an action of a type the server does not recognise the
\* handler raises NotImplementedError to the transport, which relays it to
\* the client; execute_action catches it and returns the empty list, the
\* value a successful query action returns.
C7_UnknownActionRaisedByServerSwallowedByClient ==
    UnknownActionServed =>
        /\ ~srv.ok
        /\ srv.err.type = "NotImplementedError"
        /\ srv.err.arg = call.type
        /\ caught.at # "none"
        /\ ret.kind # "raised"
        /\ ret = RetList(<<>>)

C7_Witness ==
    /\ UnknownActionServed
    /\ call.type = "bogus"
    /\ ret = RetList(<<>>)

\* C8: do_action with a type other than "query" raises an error whose
\* message is "Unknown action type: " followed by the rejected type, passes
\* no statement to the store and leaves the store as it was.
C8_UnknownActionRejectedStoreUnchanged ==
    (call.op = "execute_action" /\ call.type # "query" /\ srv.called) =>
        /\ ~srv.ok
        /\ srv.err = Err("NotImplementedError", "Unknown action type: ", call.type)
        /\ srv.stmts = <<>>
        /\ srv.results = <<>>
        /\ Db(tables, temp_table) = call.pre

C8_Witness ==
    /\ call.op = "execute_action"
    /\ call.type = "bogus"
    /\ call.body = Body(CreateTable("t", ActionCols))
    /\ srv.called
    /\ srv.err.arg = "bogus"
    /\ ~tables["t"].exists

QueryActionServed ==
    /\ call.op = "execute_action"
    /\ call.type = "query"
    /\ call.body.given
    /\ srv.called

\* C9: do_action with type "query" passes the decoded body to the store
\* exactly once; when the store accepts it the handler returns no result,
\* whatever rows the statement yields, and the store is left as the
\* statement leaves it; a table a query action created stays in the store,
\* and every later get counting it is answered from it.
C9_QueryActionState ==
    QueryActionServed =>
        /\ srv.stmts = <<call.body.text>>
        /\ srv.results = <<>>
        /\ srv.ok = Execute(call.pre, call.body.text).ok
        /\ Db(tables, temp_table) = Execute(call.pre, call.body.text).db
        /\ (srv.ok /\ call.body.text.op = "create") =>
              tables[call.body.text.t] = StoredTable(call.body.text.cols, <<>>)
C9_LaterGets ==
    \A n \in TableNames :
        /\ tables[n].exists => tables'[n].exists
        /\ (/\ tables[n].exists
            /\ call'.op = "execute_query"
            /\ call'.query = CountStar(n)
            /\ srv'.called) =>
              /\ srv'.ok
              /\ srv'.stream.batches =
                    <<[schema |-> <<Field("count_star()", "int64")>>,
                       rows |-> <<<<Len(tables[n].rows)>>>>]>>
C9_QueryActionExecutesOnce == []C9_QueryActionState /\ [][C9_LaterGets]_vars

C9_Witness ==
    /\ call.op = "execute_query"
    /\ call.query = CountStar("m")
    /\ srv.ok
    /\ tables["m"] = StoredTable(ActionCols, <<>>)
    /\ ret.table.rows = <<<<0>>>>

\* The store type the upload policy gives each Arrow type.
PolicyType(t) ==
    CASE t \in {"int32", "int64"} -> "BIGINT"
      [] t = "double" -> "DOUBLE"
      [] t = "bool" -> "BOOLEAN"
      [] t = "timestamp" -> "TIMESTAMP"
      [] t = "date32" -> "DATE"
      [] OTHER -> "VARCHAR"

PutToAbsentServed ==
    /\ call.op = "upload_data"
    /\ call.fault.step \in {"none", "close"}
    /\ ~call.pre.tables[call.name].exists

\* C10: a put of table T to a name without a persistent table leaves that
\* table existing, with T's column names in T's order, each column of the
\* type the policy gives T's column, and holding exactly T's rows; a get
\* that next counts the table's rows returns T's row count.
C10_PutState ==
    PutToAbsentServed =>
        /\ tables[call.name].exists
        /\ Len(tables[call.name].cols) = Len(call.table.schema)
        /\ \A i \in 1..Len(call.table.schema) :
              /\ tables[call.name].cols[i].name = call.table.schema[i].name
              /\ tables[call.name].cols[i].type = PolicyType(call.table.schema[i].type)
        /\ tables[call.name].rows = call.table.rows
C10_FollowingCount ==
    (/\ PutToAbsentServed
     /\ call'.op = "execute_query"
     /\ call'.query = CountStar(call.name)
     /\ call'.fault = NoFault) =>
        /\ ret'.kind = "table"
        /\ ret'.table.rows = <<<<Len(call.table.rows)>>>>
C10_PutToAbsentCreatesAndFills == []C10_PutState /\ [][C10_FollowingCount]_vars

C10_Witness ==
    /\ call.op = "execute_query"
    /\ call.query = CountStar("t")
    /\ tables["t"] = StoredTable(<<Field("id", "BIGINT"), Field("name", "VARCHAR")>>, T1.rows)
    /\ ret.table.rows = <<<<2>>>>

(***************************************************************************)
(* Properties of sequences of puts (Spec).                                 *)
(***************************************************************************)
PutServed ==
    /\ call.op = "upload_data"
    /\ call.fault.step \in {"none", "close"}
    /\ srv.called
PreTable == call.pre.tables[call.name]

\* C11: a put to a table name that is absent or was created by a put of the
\* same schema does not fail, and leaves the table holding the rows it held
\* before followed by the uploaded rows, so that after a sequence of such
\* puts the row count is the sum of the uploads' row counts.
C11_SequentialPutsAccumulate ==
    (PutServed /\ (PreTable.exists => PreTable.cols = schema_fields(call.table))) =>
        /\ srv.ok
        /\ call.fault = NoFault => ret = RetTrue
        /\ tables[call.name].exists
        /\ tables[call.name].rows = PreTable.rows \o call.table.rows

\* C12: no step adds, drops, renames or retypes a column of a table that
\* exists, whatever the schema of the put; a table a put creates has the
\* columns inferred from that put.
C12_SchemaStep ==
    \A n \in TableNames :
        /\ tables[n].exists =>
              /\ tables'[n].exists
              /\ tables'[n].cols = tables[n].cols
        /\ (~tables[n].exists /\ tables'[n].exists /\ call'.op = "upload_data") =>
              /\ call'.name = n
              /\ Len(tables'[n].cols) = Len(call'.table.schema)
              /\ \A i \in 1..Len(call'.table.schema) :
                    tables'[n].cols[i] =
                        Field(call'.table.schema[i].name,
                              PolicyType(call'.table.schema[i].type))
C12_SchemaFixedByCreatingPut == [][C12_SchemaStep]_vars

C12_Witness ==
    /\ PutServed
    /\ srv.ok
    /\ PreTable.exists
    /\ PreTable.cols # schema_fields(call.table)
    /\ tables[call.name].cols = PreTable.cols
    /\ Len(tables[call.name].rows) > Len(PreTable.rows)

Incompatible(schema, cols) ==
    \/ Len(schema) # Len(cols)
    \/ \E i \in 1..Len(cols) : ~CanCast(DuckOfArrow(schema[i].type), cols[i].type)
InsertErrors == {"BinderException", "ConversionException"}

\* C13: a put whose table does not fit the existing table in column count or
\* column type fails at the INSERT statement with the store's insert error,
\* and the existing table has the rows and the columns it had before.
C13_IncompatiblePutFailsAtInsert ==
    (PutServed /\ PreTable.exists /\ Incompatible(call.table.schema, PreTable.cols)) =>
        /\ ~srv.ok
        /\ srv.err.type \in InsertErrors
        /\ srv.stmts # <<>>
        /\ srv.stmts[Len(srv.stmts)] = InsertFromTemp(call.name)
        /\ tables[call.name] = PreTable

PutFailedAfterCreate ==
    /\ PutServed
    /\ ~PreTable.exists
    /\ ~srv.ok
    /\ srv.stmts # <<>>
    /\ srv.stmts[1].op = "create_if_not_exists"

\* C14: a put to an absent name that fails after its CREATE and before its
\* INSERT has completed leaves the table created with the inferred columns
\* and without rows; the same put made again next succeeds and leaves the
\* table with the uploaded rows once.
C14_CreatedAndEmpty ==
    PutFailedAfterCreate =>
        tables[call.name] = StoredTable(schema_fields(call.table), <<>>)
C14_RepeatSucceeds ==
    (/\ PutFailedAfterCreate
     /\ call'.op = "upload_data"
     /\ call'.name = call.name
     /\ call'.table = call.table
     /\ call'.fault = NoFault) =>
        /\ srv'.ok
        /\ ret' = RetTrue
        /\ tables'[call.name].rows = call.table.rows
C14_PartialPutIsRepeatable == []C14_CreatedAndEmpty /\ [][C14_RepeatSucceeds]_vars

PolicyFields(schema) ==
    [i \in 1..Len(schema) |-> Field(schema[i].name, PolicyType(schema[i].type))]

\* C15: for every put the handler serves, whatever the types of the
\* uploaded columns, inference does not fail: the handler goes on to its
\* CREATE statement, whose columns carry for each uploaded column the one
\* store type of the mapping integer->BIGINT, floating->DOUBLE,
\* string->VARCHAR, boolean->BOOLEAN, timestamp->TIMESTAMP, date->DATE,
\* other->VARCHAR.
C15_InferenceTotalFirstMatch ==
    PutServed =>
        /\ srv.stmts # <<>>
        /\ srv.stmts[1] = CreateIfNotExists(call.name, PolicyFields(call.table.schema))
        /\ \A i \in 1..Len(call.table.schema) :
              srv.stmts[1].cols[i].type \in
                  {"BIGINT", "DOUBLE", "VARCHAR", "BOOLEAN", "TIMESTAMP", "DATE"}

C15_Witness ==
    /\ PutServed
    /\ call.table = TMixed
    /\ [i \in 1..5 |-> srv.stmts[1].cols[i].type] =
          <<"BIGINT", "BOOLEAN", "TIMESTAMP", "DATE", "VARCHAR">>

TypesOf(fields) == [i \in 1..Len(fields) |-> fields[i].type]
NamesOf(fields) == [i \in 1..Len(fields) |-> fields[i].name]

\* C16: the column list of a put's CREATE statement is as long as the
\* upload's column list and has its names in its order; two puts served one
\* after the other whose uploads have the same column type sequence have the
\* same column type sequence in their CREATE statements, whatever the store
\* held before each and whatever the table names and rows.
C16_OrderPreserved ==
    PutServed =>
        /\ Len(srv.stmts[1].cols) = Len(call.table.schema)
        /\ NamesOf(srv.stmts[1].cols) = NamesOf(call.table.schema)
C16_SameTypesSameDdl ==
    (/\ PutServed
     /\ call'.op = "upload_data"
     /\ call'.fault.step \in {"none", "close"}
     /\ TypesOf(call'.table.schema) = TypesOf(call.table.schema)) =>
        TypesOf(srv'.stmts[1].cols) = TypesOf(srv.stmts[1].cols)
C16_InferenceDeterministicInOrder == []C16_OrderPreserved /\ [][C16_SameTypesSameDdl]_vars

C16_Witness ==
    /\ PutServed
    /\ call.table = T2
    /\ PreTable = StoredTable(ActionCols, <<>>)
    /\ call.pre.tables["m"].rows = T1.rows
    /\ TypesOf(srv.stmts[1].cols) = <<"BIGINT", "VARCHAR">>

(***************************************************************************)
(* Properties of the handlers' chunking and decoding (SpecServer, Spec).   *)
(***************************************************************************)
GetServedOk ==
    /\ call.op = "do_get"
    /\ srv.called
    /\ srv.ok

\* The rows the store holds for a query at the time of the call.
ResultRows(db, query) ==
    IF query.op = "count" THEN <<<<Len(db.tables[query.t].rows)>>>>
    ELSE IF query.op = "select_temp" THEN db.temp.rows
    ELSE db.tables[query.t].rows
ResultSchema(db, query) ==
    IF query.op = "count" THEN <<Field("count_star()", "int64")>>
    ELSE IF query.op = "select_temp" THEN db.temp.schema
    ELSE [i \in 1..Len(db.tables[query.t].cols) |->
            Field(db.tables[query.t].cols[i].name,
                  ArrowOfDuck(db.tables[query.t].cols[i].type))]

\* C17: the stream of a get that succeeds consists of batches of at least
\* one and at most 1024 rows, each of the result's schema, whose rows taken
\* in order are the rows of the query's result in the result's order; the
\* stream's schema is the result's.
C17_GetStreamsResultInBatches ==
    GetServedOk =>
        /\ \A i \in 1..Len(srv.stream.batches) :
              /\ Len(srv.stream.batches[i].rows) >= 1
              /\ Len(srv.stream.batches[i].rows) <= 1024
              /\ srv.stream.batches[i].schema = ResultSchema(call.pre, call.query)
        /\ ConcatRows(srv.stream.batches) = ResultRows(call.pre, call.query)
        /\ srv.stream.schema = ResultSchema(call.pre, call.query)

C17_Witness ==
    /\ GetServedOk
    /\ call.query = SelectAll("t")
    /\ Len(srv.stream.batches) = 3
    /\ Len(srv.stream.batches[1].rows) = 1024
    /\ Len(srv.stream.batches[2].rows) = 1024
    /\ Len(srv.stream.batches[3].rows) = 1
    /\ srv.stream.batches[3].rows[1] = <<2049>>

\* C18: wherever a handler splits a table into batches and reassembles
\* them, reassembly does not fail and gives the table back: a put that got
\* past its CREATE has registered exactly the uploaded table, and a get
\* whose query the store answered returns a stream that reads back as the
\* result; tables without rows included.
C18_ChunkRoundTrip ==
    /\ (/\ call.op = "do_put"
        /\ srv.called
        /\ call.utf8) =>
          /\ srv.err.type # "ValueError"
          /\ temp_table = [bound |-> TRUE, schema |-> call.table.schema,
                           rows |-> call.table.rows]
    /\ (/\ call.op = "do_get"
        /\ srv.called
        /\ call.utf8
        /\ call.query.op \in {"select", "count"}
        /\ call.pre.tables[call.query.t].exists) =>
          /\ srv.ok
          /\ read_all(srv.stream) =
                ArrowTable(ResultSchema(call.pre, call.query),
                           ResultRows(call.pre, call.query))

ZeroRowQueryServed ==
    /\ call.op = "execute_query"
    /\ call.fault = NoFault
    /\ srv.called
    /\ call.query.op = "select"
    /\ call.pre.tables[call.query.t].exists
    /\ call.pre.tables[call.query.t].rows = <<>>

\* C19: a query whose result has no rows succeeds end to end: do_get
\* returns a stream of the result's schema, and execute_query returns a
\* table of the result's columns and no rows.
C19_ZeroRowQuerySucceeds ==
    ZeroRowQueryServed =>
        /\ srv.ok
        /\ srv.stream.schema = ResultSchema(call.pre, call.query)
        /\ ret = RetTable(ArrowTable(ResultSchema(call.pre, call.query), <<>>))

BadBytesServed ==
    /\ srv.called
    /\ ~call.utf8
    /\ \/ call.op \in {"do_get", "do_put"}
       \/ call.op = "do_action" /\ call.type = "query"

\* C20: a get whose ticket, a put whose descriptor path or a query action
\* whose body is not valid UTF-8 raises UnicodeDecodeError, passes no
\* statement to the store and leaves the store, the registration of
\* temp_table included, as it was.
C20_BadBytesRejectedBeforeStore ==
    BadBytesServed =>
        /\ ~srv.ok
        /\ srv.err.type = "UnicodeDecodeError"
        /\ srv.stmts = <<>>
        /\ tables = call.pre.tables
        /\ temp_table = call.pre.temp

C20_Witness ==
    /\ BadBytesServed
    /\ call.op = "do_get"
    /\ srv.err.type = "UnicodeDecodeError"
    /\ Len(tables["t"].rows) = 1

(***************************************************************************)
(* Properties of the store connection across handler calls (SpecServer).   *)
(***************************************************************************)
FailedCall == srv.called /\ ~srv.ok

\* The handler call a call record stands for, run on a given store.
HandlerOn(db, c) ==
    CASE c.op = "do_get" ->
           do_get(db, IF c.utf8 THEN Encode(c.query) ELSE BadBytes)
      [] c.op = "do_put" ->
           do_put(db, IF c.utf8 THEN Encode(c.name) ELSE BadPath, c.table)
      [] OTHER ->
           do_action(db, [type |-> c.type,
                          body |-> IF c.utf8 THEN Encode(c.body.text) ELSE BadBytes])

\* C21: a handler call that fails leaves every persistent table as it was,
\* except that a put to an absent name that fails after its CREATE leaves
\* that table created with the inferred columns and without rows; and the
\* call served next, if it succeeds on a store holding just those tables,
\* succeeds on the server with the same result and the same tables.
C21_FailureEffects ==
    FailedCall =>
        \A n \in TableNames :
            \/ tables[n] = call.pre.tables[n]
            \/ /\ call.op = "do_put"
               /\ call.utf8
               /\ call.name = n
               /\ ~call.pre.tables[n].exists
               /\ tables[n] = StoredTable(PolicyFields(call.table.schema), <<>>)
C21_NextCall ==
    (FailedCall /\ srv'.called /\ HandlerOn(Db(tables, NoTemp), call').ok) =>
        /\ srv' = Served(HandlerOn(Db(tables, NoTemp), call'))
        /\ tables' = HandlerOn(Db(tables, NoTemp), call').db.tables
C22_TransientSourceCallScoped ==
    /\ (call.op = "do_put" /\ srv.called) => ~temp_table.bound
    /\ (/\ call.op = "do_get"
        /\ call.utf8
        /\ call.query = SelectTemp
        /\ srv.called) =>
          /\ ~srv.ok
          /\ srv.stream = NoStream

\* C26: an action of type "list_tables" succeeds and returns one result
\* for each persistent table of the store, that result being the table's
\* name encoded as bytes, in any order.
C26_ListTablesReturnsNames ==
    (call.op = "do_action" /\ call.type = "list_tables" /\ srv.called) =>
        /\ srv.ok
        /\ Len(srv.results) = Cardinality({n \in TableNames : tables[n].exists})
        /\ {srv.results[i] : i \in 1..Len(srv.results)} =
              {Encode(n) : n \in {x \in TableNames : tables[x].exists}}

(***************************************************************************)
(* Properties of one put's steps (SpecPuts, SpecConc).                     *)
(***************************************************************************)
\* C27: every put that reaches the store passes it exactly two statements,
\* first CREATE TABLE IF NOT EXISTS for the target name and last INSERT INTO
\* the target from temp_table, and between them registers the uploaded
\* table as temp_table, so that temp_table is the upload when the put
\* returns.
C27_PutStepsInOrder ==
    PutServed =>
        /\ srv.stmts = <<CreateIfNotExists(call.name, PolicyFields(call.table.schema)),
                         InsertFromTemp(call.name)>>
        /\ temp_table = [bound |-> TRUE, schema |-> call.table.schema,
                         rows |-> call.table.rows]

\* C29: a put of a table without rows succeeds: upload_data returns True,
\* the target table exists afterwards, with the inferred columns if it was
\* absent, and holds the rows it held before.
C29_ZeroRowPutSucceeds ==
    (PutServed /\ call.table.rows = <<>>) =>
        /\ srv.ok
        /\ call.fault = NoFault => ret = RetTrue
        /\ tables[call.name].exists
        /\ ~PreTable.exists => tables[call.name].cols = PolicyFields(call.table.schema)
        /\ tables[call.name].rows = PreTable.rows

\* C30: when two concurrent puts to different table names have both
\* completed, each table holds exactly the rows uploaded for it, whatever
\* the interleaving of the two puts' steps.
C30_ConcurrentPutsToDifferentNames ==
    (/\ wpc["P1"] = "done"
     /\ wpc["P2"] = "done"
     /\ wreq["P1"].name # wreq["P2"].name) =>
        /\ tables[wreq["P1"].name].rows = wreq["P1"].table.rows
        /\ tables[wreq["P2"].name].rows = wreq["P2"].table.rows

(***************************************************************************)
(* Properties of the client facade (Spec, SpecPuts, SpecPolars).           *)
(***************************************************************************)
\* C23: whatever facade calls were made and however they ended, the client
\* is the one flight.connect returned at construction, its location is the
\* one set at construction, and flight.connect was called once.
C23_ConnectsOnceAtConstruction ==
    /\ client = FlightClient(DefaultLocation, 1)
    /\ location = DefaultLocation
    /\ connects = 1
    /\ trace = <<[ev |-> "connect", outcome |-> "ok"]>>
    /\ cpc = "returned"
    /\ sleeps = 0

C23_Witness ==
    /\ ncalls = 3
    /\ call.op = "execute_query"
    /\ caught.at = "do_get"
    /\ caught.exc = Unavailable
    /\ client = FlightClient(DefaultLocation, 1)

MoreRows(old, new) == \A i \in 1..Len(old) : Occurrences(old, old[i]) <= Occurrences(new, old[i])

\* C24: a put, whether it succeeds or fails, leaves every persistent table
\* other than the one it names as it was, and the table it names, if it
\* existed, existing with at least the rows it held, each as often as
\* before.
C24_PutStep ==
    call'.op = "upload_data" =>
        \A n \in TableNames :
            /\ n # call'.name => tables'[n] = tables[n]
            /\ tables[n].exists =>
                  /\ tables'[n].exists
                  /\ Len(tables'[n].rows) >= Len(tables[n].rows)
                  /\ MoreRows(tables[n].rows, tables'[n].rows)
C24_PutsOnlyAppend == [][C24_PutStep]_vars

C24_Witness ==
    /\ PutServed
    /\ ~srv.ok
    /\ srv.err.type = "ConversionException"
    /\ PreTable.rows = T1.rows \o T2.rows
    /\ tables[call.name].rows = T1.rows \o T2.rows

\* C25: execute_query_to_polars does not raise and does not return None:
\* it returns a DataFrame, without rows when execute_query or the
\* conversion failed, and with the rows of the query's result otherwise.
C25_PolarsNeverRaisesNeverNone ==
    call.op = "execute_query_to_polars" =>
        /\ ret.kind = "DataFrame"
        /\ caught.at # "none" => ret.table.rows = <<>>
        /\ caught.at = "none" =>
              /\ srv.ok
              /\ ret.table.rows = ResultRows(call.pre, call.query)

C25_Witness ==
    /\ call.op = "execute_query_to_polars"
    /\ call.query = SelectAll("t")
    /\ call.from_arrow_raises
    /\ srv.ok
    /\ Len(srv.stream.batches[1].rows) = 2
    /\ caught.at = "from_arrow"
    /\ ret = RetFrame(NoArrowTable)

\* C28: upload_data returns True exactly when do_put, write_table and close
\* all returned, and False otherwise; when it returns True the server's put
\* has run its CREATE and its INSERT and the table holds the uploaded rows
\* after the rows it held, and a query selecting the table next returns
\* them.
C28_TrueOnlyAfterAllSteps ==
    call.op = "upload_data" =>
        /\ ret \in {RetTrue, RetFalse}
        /\ ret = RetTrue <=> caught = NoneCaught
        /\ ret = RetTrue =>
              /\ call.fault = NoFault
              /\ srv.called
              /\ srv.ok
              /\ Len(srv.stmts) = 2
              /\ srv.stmts[2] = InsertFromTemp(call.name)
              /\ tables[call.name].rows = PreTable.rows \o call.table.rows
C28_RowsVisible ==
    (/\ call.op = "upload_data"
     /\ ret = RetTrue
     /\ call'.op = "execute_query"
     /\ call'.query = SelectAll(call.name)
     /\ call'.fault = NoFault) =>
        /\ ret'.kind = "table"
        /\ ret'.table.rows = PreTable.rows \o call.table.rows
C28_UploadTrueMeansStored == []C28_TrueOnlyAfterAllSteps /\ [][C28_RowsVisible]_vars

C28_Witness ==
    /\ call.op = "execute_query"
    /\ call.query = SelectAll("m")
    /\ ret.kind = "table"
    /\ ret.table.rows = T1.rows \o T2.rows
    /\ ncalls = 3

\* C31: for every max_attempts, 0 and negative values included, constructing
\* the client either raises or completes with the connection handle holding
\* the connection a successful flight.connect returned; it never completes
\* without a connection after making no attempt.
C31_ConstructionConnectsOrRaises ==
    cpc = "returned" =>
        /\ client.kind = "FlightClient"
        /\ connects >= 1
        /\ Len(trace) >= 1
        /\ trace[Len(trace)] = [ev |-> "connect", outcome |-> "ok"]
        /\ client.conn = connects

\* C32: every put writer upload_data obtained from do_put is closed when
\* upload_data returns, on every path, the one where write_table fails and
\* upload_data returns False included.
C32_WriterClosedOnEveryPath ==
    call.op = "upload_data" =>
        /\ writer \in {"none", "closed"}
        /\ writer = "none" <=> caught.at = "do_put"
        /\ (caught.at = "write_table" /\ ret = RetFalse) => writer = "closed"

\* C33: execute_action with type "query" returns the empty list when the
\* server executed the SQL and when the call failed (server error, invalid
\* SQL, transport failure) alike: the returned value does not tell the two
\* apart.
C33_QueryActionReturnHidesOutcome ==
    (call.op = "execute_action" /\ call.type = "query") =>
        /\ ret = RetList(<<>>)
        /\ caught = NoneCaught <=> (srv.called /\ srv.ok /\ call.fault = NoFault)
        /\ (srv.called /\ srv.ok) => srv.results = <<>>

C33_Witness ==
    /\ call.op = "execute_action"
    /\ call.type = "query"
    /\ call.body = Body(InvalidSql)
    /\ call.fault = NoFault
    /\ srv.called
    /\ ~srv.ok
    /\ caught.at = "results"
    /\ ret = RetList(<<>>)
    /\ ncalls = 2

\* C34: a put into an existing table matches the upload's columns to the
\* table's columns by position: an upload with the table's column count and
\* castable types whose column names differ from the table's, or come in
\* another order, is accepted and its values are appended under the table's
\* column at the same position.
RenamedOrReordered(schema, cols) ==
    /\ ~Incompatible(schema, cols)
    /\ NamesOf(schema) # NamesOf(cols)
C34_PutMatchesByPosition ==
    (/\ PutServed
     /\ PreTable.exists
     /\ RenamedOrReordered(call.table.schema, PreTable.cols)) =>
        /\ srv.ok
        /\ ret = RetTrue
        /\ tables[call.name].cols = PreTable.cols
        /\ tables[call.name].rows = PreTable.rows \o call.table.rows

\* C35: wait_for_table(client, name, max_attempts = M) is a bounded poll: it
\* returns True at the first attempt whose count query succeeds, with no
\* query and no sleep after it; otherwise it returns False after exactly M
\* failed queries and exactly M sleeps of one second, the last failed
\* attempt being followed by a sleep too; it always terminates.  (For M < 0
\* the loop runs no iteration: False after no query and no sleep.)
Attempts(m) == IF m < 0 THEN 0 ELSE m
PollFailed == Len(SelectSeq(poll.trace, LAMBDA e : e = "none"))
C35_PollShape ==
    /\ poll.queries = Len(SelectSeq(poll.trace, LAMBDA e : e # "sleep"))
    /\ poll.sleeps = Len(SelectSeq(poll.trace, LAMBDA e : e = "sleep"))
    /\ poll.slept = poll.sleeps
    /\ poll.queries <= Attempts(poll.max_attempts)
    /\ \A i \in 1..Len(poll.trace) :
          /\ poll.trace[i] = "sleep" => (i > 1 /\ poll.trace[i - 1] = "none")
          /\ poll.trace[i] = "none" =>
                IF i < Len(poll.trace) THEN poll.trace[i + 1] = "sleep"
                                       ELSE poll.pc = "sleep"
          /\ poll.trace[i] = "found" =>
                (i = Len(poll.trace) /\ poll.pc = "returned" /\ poll.ret = "True")
C35_PollReturn ==
    poll.pc = "returned" =>
        /\ poll.ret \in {"True", "False"}
        /\ poll.ret = "True" =>
              /\ poll.trace[Len(poll.trace)] = "found"
              /\ poll.queries = PollFailed + 1
              /\ poll.sleeps = PollFailed
        /\ poll.ret = "False" =>
              /\ PollFailed = Attempts(poll.max_attempts)
              /\ poll.queries = Attempts(poll.max_attempts)
              /\ poll.sleeps = Attempts(poll.max_attempts)
              /\ poll.max_attempts >= 1 => poll.trace[Len(poll.trace)] = "sleep"
C35_NothingAfterReturn == poll.pc = "returned" => poll' = poll
C35_WaitForTableBoundedPoll ==
    /\ [](C35_PollShape /\ C35_PollReturn)
    /\ [][C35_NothingAfterReturn]_vars
    /\ (poll.pc # "none") ~> (poll.pc = "returned")

C35_Witness ==
    /\ poll.pc = "returned"
    /\ poll.ret = "False"
    /\ poll.max_attempts = 3
    /\ poll.trace = <<"none", "sleep", "none", "sleep", "none", "sleep">>
    /\ tables[poll.table_name].exists

====
